---- MODULE Spec2Model ----
(***************************************************************************)
(* GitHub bounty bot: the poll loop (checkForBountyCommands), the command  *)
(* parser (parseBountyCommand / isAuthorized) and the bounty transaction   *)
(* pipeline (processBountyCommand, createBountyTransaction,                *)
(* signAndSendTransaction, checkTransactionStatus).                        *)
(*                                                                         *)
(* Strings are sequences of one-character strings.  Every awaited network  *)
(* call is one action whose outcome is chosen nondeterministically.        *)
(***************************************************************************)
EXTENDS Integers, Sequences, FiniteSets, TLC

(***************************************************************************)
(* Bounds of the model                                                     *)
(***************************************************************************)
\* number of poll ticks that may be in progress at the same time
MaxTicks == 2
\* longest comment listing returned by one getRecentComments call
MaxListing == 2

(***************************************************************************)
(* Characters and strings                                                  *)
(***************************************************************************)
UpperLetters == <<"A", "B", "C", "D", "E", "F", "G", "H", "I", "J", "K", "L", "M", "N", "O", "P", "Q", "R", "S", "T", "U", "V", "W", "X", "Y", "Z">>

LowerLetters == <<"a", "b", "c", "d", "e", "f", "g", "h", "i", "j", "k", "l", "m", "n", "o", "p", "q", "r", "s", "t", "u", "v", "w", "x", "y", "z">>

Digits == <<"0", "1", "2", "3", "4", "5", "6", "7", "8", "9">>

Range(s) == {s[i] : i \in DOMAIN s}

\* the lower-case letter of every upper-case letter
LowerMap ==
  [ch \in Range(UpperLetters) |->
     LowerLetters[CHOOSE i \in DOMAIN UpperLetters : UpperLetters[i] = ch]]

LowerChar(ch) == IF ch \in DOMAIN LowerMap THEN LowerMap[ch] ELSE ch

\* String.prototype.toLowerCase
toLowerCase(s) == [i \in DOMAIN s |-> LowerChar(s[i])]

DigitVal(ch) == (CHOOSE i \in DOMAIN Digits : Digits[i] = ch) - 1

RECURSIVE DigitsVal(_)
DigitsVal(s) ==
  IF s = <<>> THEN 0
  ELSE 10 * DigitsVal(SubSeq(s, 1, Len(s) - 1)) + DigitVal(s[Len(s)])

RECURSIVE Pow10(_)
Pow10(n) == IF n = 0 THEN 1 ELSE 10 * Pow10(n - 1)

\* parseFloat on a string of the shape \d+(\.\d+)? : the exact decimal value
\* num / den
parseFloat(s) ==
  LET dots == {i \in DOMAIN s : s[i] = "."}
      ip == IF dots = {} THEN s ELSE SubSeq(s, 1, (CHOOSE i \in dots : TRUE) - 1)
      fp == IF dots = {} THEN <<>> ELSE SubSeq(s, (CHOOSE i \in dots : TRUE) + 1, Len(s))
  IN [num |-> DigitsVal(ip \o fp), den |-> Pow10(Len(fp))]

\* length of the longest run of characters of class C starting at s[p]
RECURSIVE RunLen(_, _, _)
RunLen(s, p, C) ==
  IF p > Len(s) \/ s[p] \notin C THEN 0 ELSE 1 + RunLen(s, p + 1, C)

SpaceSet == {" ", "\t", "\n"}
DigitSet == Range(Digits)
WordSet == Range(UpperLetters) \cup Range(LowerLetters) \cup Range(Digits) \cup {"_"}

(***************************************************************************)
(* parseBountyCommand: the regular expression                              *)
(*   /\/bounty\s+(\d+(?:\.\d+)?)\s+([\w\d]{32,44})/i                       *)
(***************************************************************************)
BountyLiteral == <<"/", "b", "o", "u", "n", "t", "y">>
TokenMinLen == 32
TokenMaxLen == 44

NoMatch == [ok |-> FALSE, amount |-> <<>>, token |-> <<>>]

\* the only element of a one-element set
TheOne(S) == CHOOSE x \in S : TRUE

\* ([\w\d]{32,44}) at position t: the longest run of word characters, cut at
\* TokenMaxLen; the amount is b[a..r-1]
MatchToken(b, a, r, t) ==
  TheOne({IF w < TokenMinLen THEN NoMatch
          ELSE [ok |-> TRUE, amount |-> SubSeq(b, a, r - 1),
                token |-> SubSeq(b, t, t + (IF w > TokenMaxLen THEN TokenMaxLen ELSE w) - 1)]
          : w \in {RunLen(b, t, WordSet)}})

\* \s+ at position r, the end of the amount that started at a
MatchSpaces2(b, a, r) ==
  TheOne({IF t = r THEN NoMatch ELSE MatchToken(b, a, r, t)
          : t \in {r + RunLen(b, r, SpaceSet)}})

\* (?:\.\d+)? at position e, the end of the integer part
AmountEnd(b, e) ==
  IF e <= Len(b) /\ b[e] = "." /\ RunLen(b, e + 1, DigitSet) >= 1
    THEN e + 1 + RunLen(b, e + 1, DigitSet)
    ELSE e

\* (\d+(?:\.\d+)?) at position a
MatchAmount(b, a) ==
  TheOne({IF e = a THEN NoMatch ELSE MatchSpaces2(b, a, AmountEnd(b, e))
          : e \in {a + RunLen(b, a, DigitSet)}})

\* the match of the regex anchored at position p of body b, or NoMatch.
\* Adjacent pieces of the pattern use disjoint character classes, so the
\* greedy match is the only one and no backtracking changes the result.
MatchAt(b, p) ==
  IF p + Len(BountyLiteral) - 1 > Len(b)
       \/ toLowerCase(SubSeq(b, p, p + Len(BountyLiteral) - 1)) # BountyLiteral
    THEN NoMatch
    ELSE TheOne({IF a = p + Len(BountyLiteral) THEN NoMatch ELSE MatchAmount(b, a)
                 : a \in {p + Len(BountyLiteral)
                          + RunLen(b, p + Len(BountyLiteral), SpaceSet)}})

\* String.prototype.match without the g flag: the leftmost match
RegexMatch(b) ==
  LET hits == {p \in 1..Len(b) : MatchAt(b, p).ok}
  IN IF hits = {} THEN NoMatch
     ELSE MatchAt(b, CHOOSE p \in hits : \A o \in hits : p <= o)

(***************************************************************************)
(* Configuration and the comments that exist on the code-hosting service   *)
(***************************************************************************)
SOL_MINT == <<"S", "o", "1", "1", "1", "1", "1", "1", "1", "1", "1", "1", "1", "1", "1", "1", "1", "1", "1", "1", "1", "1", "1", "1", "1", "1", "1", "1", "1", "1", "1", "1", "1", "1", "1", "1", "1", "1", "1", "1", "1", "1", "2">>

USDC_MINT == <<"E", "P", "j", "F", "W", "d", "d", "5", "A", "u", "f", "q", "S", "S", "q", "e", "M", "2", "q", "N", "1", "x", "z", "y", "b", "a", "p", "C", "8", "G", "4", "w", "E", "G", "G", "k", "Z", "w", "y", "T", "D", "t", "1", "v">>

\* REPOSITORIES: the configured repositories, in order
REPOSITORIES == <<"o/r1", "o/r2">>

\* the values AUTHORIZED_USERS can be loaded with at start-up
AllowLists == { {}, {<<"a", "l", "i", "c", "e">>}, {<<"B", "O", "B">>, <<"d", "a", "v", "e">>} }

(***************************************************************************)
(* Comment bodies for calls of parseBountyCommand on its own: every        *)
(* combination of the pieces below, in the order prefix, literal, gap,     *)
(* amount, gap, token, suffix                                              *)
(***************************************************************************)
ProbePrefixes == <<<<>>, <<"o", "k", " ">>>>
ProbeLiterals == <<<<"/", "b", "o", "u", "n", "t", "y">>, <<"/", "B", "O", "U", "N", "T", "Y">>, <<"b", "o", "u", "n", "t", "y">>>>
ProbeGaps == <<<<" ">>, <<>>, <<" ", "\t">>>>
ProbeAmounts == <<<<"5">>, <<"2", ".", "5">>, <<"5", ".">>, <<"x">>, <<"0">>, <<"0", ".", "0">>>>
\* a token of 45 alphanumeric characters
LongToken == SOL_MINT \o <<"X", "Y">>
ProbeTokens ==
  <<SOL_MINT, USDC_MINT, LongToken,
    <<"A", "b", "c", "4", "A", "b", "c", "4", "A", "b", "c", "4", "A", "b", "c", "4", "A", "b", "c", "4", "A", "b", "c", "4", "A", "b", "c", "4", "A", "b", "c", "4">>,
    <<"A", "b", "c", "4", "A", "b", "c", "4", "A", "b", "c", "4", "A", "b", "c", "4", "A", "b", "c", "4", "A", "b", "c", "4", "A", "b", "c", "4", "A", "b", "c">>,
    <<"A", "b", "c", "4", "A", "b", "c", "4", "A", "b", "c", "4", "A", "b", "c", "4", "A", "b", "c", "4", "_", "b", "c", "4", "A", "b", "c", "4", "A", "b", "c", "4">>,
    <<"A", "b", "c", "4", "A", "b", "c", "4", "A", "b", "c", "4", "A", "b", "c", "4", "-", "b", "c", "4", "A", "b", "c", "4", "A", "b", "c", "4", "A", "b", "c", "4">>>>
ProbeSuffixes == <<<<>>, <<" ", "t", "h", "x">>>>
ProbeUsers == <<<<"A", "L", "I", "C", "E">>, <<"e", "v", "e">>>>

ProbeDims ==
  <<Len(ProbePrefixes), Len(ProbeLiterals), Len(ProbeGaps), Len(ProbeAmounts),
    Len(ProbeGaps), Len(ProbeTokens), Len(ProbeSuffixes), Len(ProbeUsers)>>

RECURSIVE Product(_, _)
Product(dims, n) == IF n = 0 THEN 1 ELSE dims[n] * Product(dims, n - 1)

\* the comments of CommentIds are those of the monitored repositories; the
\* ids after them are the comments built from the pieces
CommentIds == 1..3
ProbeIds == (Cardinality(CommentIds) + 1)..(Cardinality(CommentIds) + Product(ProbeDims, Len(ProbeDims)))

\* the d-th piece of comment c: c numbers the combinations in mixed radix
Piece(pieces, c, d) ==
  pieces[(((c - Cardinality(CommentIds) - 1) \div Product(ProbeDims, d - 1)) % ProbeDims[d]) + 1]

ProbeBody(c) ==
  Piece(ProbePrefixes, c, 1) \o Piece(ProbeLiterals, c, 2) \o Piece(ProbeGaps, c, 3)
    \o Piece(ProbeAmounts, c, 4) \o Piece(ProbeGaps, c, 5) \o Piece(ProbeTokens, c, 6)
    \o Piece(ProbeSuffixes, c, 7)

\* GitHubComment: user is user.login; issue_url names the issue
Comments ==
  [c \in CommentIds \cup ProbeIds |->
     CASE c = 1 -> [id |-> c, repo |-> "o/r1", user |-> <<"A", "l", "i", "c", "e">>, issue_url |-> 11,
                    body |-> <<"/", "b", "o", "u", "n", "t", "y", " ", "5", " ">> \o SOL_MINT]
       [] c = 2 -> [id |-> c, repo |-> "o/r1", user |-> <<"a", "l", "i", "c", "e">>, issue_url |-> 11,
                    body |-> <<"n", "i", "c", "e", " ", "w", "o", "r", "k">>]
       [] c = 3 -> [id |-> c, repo |-> "o/r2", user |-> <<"b", "o", "b">>, issue_url |-> 22,
                    body |-> <<"p", "l", "e", "a", "s", "e", " ", "/", "B", "o", "u", "n", "t", "y", " ", " ", "2", ".", "5", " ">> \o USDC_MINT \o <<" ", "t", "h", "a", "n", "k", "s">>]
       [] OTHER -> [id |-> c, repo |-> "o/r3", user |-> Piece(ProbeUsers, c, 8), issue_url |-> 33,
                    body |-> ProbeBody(c)]]

\* comment.body.match(regex) of every existing comment, computed once
BodyMatch == [c \in DOMAIN Comments |-> RegexMatch(Comments[c].body)]

\* what one listCommentsForRepo call can return for a repository: any
\* sequence of its comments (an id may repeat), or [] when the call fails
Listings(repo) ==
  UNION {[1..n -> {c \in CommentIds : Comments[c].repo = repo}] : n \in 0..MaxListing}

(***************************************************************************)
(* State                                                                   *)
(***************************************************************************)
VARIABLES
  AUTHORIZED_USERS,   \* the allow-list loaded at start-up
  processedComments,  \* the Set<number> of comment ids already seen
  tick,               \* per poll tick: position and local variables
  hist,               \* per comment id: what the environment observed
  posts,              \* per comment id: the comments created for its command
  calls,              \* per poll tick, for the invocation of processBountyCommand
                      \* in progress: the status queries signAndSendTransaction
                      \* made, the calls of commentOnIssue and the answer to the
                      \* latest status query of processBountyCommand itself
  call,               \* one call of parseBountyCommand on its own, and the reports
                      \* built for its result
  clock               \* the wall clock, and for the registry on its own: when each
                      \* id was added and what the last cleanup run found

vars == <<AUTHORIZED_USERS, processedComments, tick, hist, posts, calls, call, clock>>

Ticks == 1..MaxTicks

NoSig == 0
NoTask == 0
\* the signature the network assigns to the transaction of command c
SigOf(c) == c
\* the task id the marketplace assigns to the bounty of command c
TaskOf(c) == 100 + c

NullResponse == [taskId |-> NoTask, serializedTransaction |-> 0]
NullCommand == [amount |-> [num |-> 0, den |-> 1], tokenAddress |-> <<>>, issueUrl |-> 0]

IdleTick ==
  [pc |-> "idle", repoIdx |-> 1, comments |-> <<>>, comment |-> 0,
   command |-> NullCommand, transactionSignature |-> NoSig,
   bountyResponse |-> NullResponse, error |-> "none", signature |-> NoSig,
   confirmError |-> "none", i |-> 0, isConfirmed |-> FALSE]

\* direct: what the network answered to the latest status query that
\* processBountyCommand made itself
NoCalls == [statusQueries |-> 0, commentAttempts |-> 0, direct |-> "none"]

\* marketplace: how the POST ended
NoHist ==
  [invoked |-> 0, marketplacePosts |-> 0, marketplace |-> "none", sendCalls |-> 0,
   sentSig |-> NoSig, errorSig |-> NoSig, primary |-> "none", fallbackFirst |-> "none",
   positive |-> FALSE, githubFailed |-> FALSE, returned |-> FALSE,
   skippedAgain |-> FALSE]

NoReport ==
  [kind |-> "none", issue |-> 0, taskId |-> NoTask, sig |-> NoSig, explorer |-> FALSE,
   note |-> "none", amount |-> NullCommand.amount, tokenType |-> "none", error |-> "none"]

NoCall ==
  [pc |-> "none", comment |-> 0, command |-> NullCommand, normal |-> NoReport,
   degraded |-> NoReport, authorized |-> FALSE]

NeverSeen == -1

\* now: hours since the midnight the bot was started at; seenAt: the hour at
\* which processedComments.add ran for the id; before, cleaned: the registry
\* the cleanup run that has just ended started from
NoClock ==
  [now |-> 0, seenAt |-> [c \in CommentIds |-> NeverSeen], before |-> {},
   cleaned |-> FALSE]

(***************************************************************************)
(* isAuthorized and parseBountyCommand                                     *)
(***************************************************************************)
isAuthorizedFailOpen(username) ==
  IF Cardinality(AUTHORIZED_USERS) = 0
    THEN TRUE
    ELSE \E user \in AUTHORIZED_USERS : toLowerCase(user) = toLowerCase(username)

isAuthorizedCaseSensitive(username) ==
  IF Cardinality(AUTHORIZED_USERS) = 0
    THEN FALSE
    ELSE \E user \in AUTHORIZED_USERS : user = username

isAuthorized(username) ==
  IF Cardinality(AUTHORIZED_USERS) = 0
    THEN FALSE
    ELSE \E user \in AUTHORIZED_USERS : toLowerCase(user) = toLowerCase(username)

parseBountyCommand(comment) ==
  LET match == BodyMatch[comment.id]
  IN IF match.ok /\ isAuthorized(comment.user)
       THEN [amount |-> parseFloat(match.amount), tokenAddress |-> match.token,
             issueUrl |-> comment.issue_url]
       ELSE NullCommand

(***************************************************************************)
(* checkForBountyCommands: the synchronous part of the comment loop        *)
(***************************************************************************)
AlreadyProcessedNever(processed, id) == FALSE

\* processedComments.has(comment.id)
AlreadyProcessed(processed, id) == id \in processed

MarkProcessedNoAdd(processed, id) == processed

\* processedComments.add(comment.id)
MarkProcessed(processed, id) == processed \cup {id}

RECURSIVE ScanMarkAfterAwait(_, _, _)
ScanMarkAfterAwait(cs, processed, skipped) ==
  IF cs = <<>> THEN [found |-> FALSE, comment |-> 0, rest |-> <<>>,
                     processed |-> processed, skipped |-> skipped]
  ELSE IF AlreadyProcessed(processed, Head(cs))
         THEN ScanMarkAfterAwait(Tail(cs), processed, skipped \cup {Head(cs)})
  ELSE IF parseBountyCommand(Comments[Head(cs)]) # NullCommand
         THEN [found |-> TRUE, comment |-> Head(cs), rest |-> Tail(cs),
               processed |-> processed, skipped |-> skipped]
         ELSE ScanMarkAfterAwait(Tail(cs), MarkProcessed(processed, Head(cs)), skipped)

\* runs the for-loop over the comments cs not yet visited until it reaches a
\* comment that yields a bounty command (found; rest is what follows it) or
\* the end of the listing; skipped collects the ids skipped as processed
RECURSIVE Scan(_, _, _)
Scan(cs, processed, skipped) ==
  IF cs = <<>> THEN [found |-> FALSE, comment |-> 0, rest |-> <<>>,
                     processed |-> processed, skipped |-> skipped]
  ELSE IF AlreadyProcessed(processed, Head(cs))
         THEN Scan(Tail(cs), processed, skipped \cup {Head(cs)})
  ELSE IF parseBountyCommand(Comments[Head(cs)]) # NullCommand
         THEN [found |-> TRUE, comment |-> Head(cs), rest |-> Tail(cs),
               processed |-> MarkProcessed(processed, Head(cs)), skipped |-> skipped]
         ELSE Scan(Tail(cs), MarkProcessed(processed, Head(cs)), skipped)

\* the loop of repository r continues as the scan res of the comments not
\* yet visited says, after processBountyCommand returned for comment
\* `returning` (0: after the listing arrived): either processBountyCommand is entered for the next command (up
\* to its first await), or the listing is exhausted and the next repository is
\* listed, or the tick ends
ResumeLoop(t, res, r, returning) ==
  LET c == res.comment
      h == IF returning = 0 THEN hist
           ELSE [hist EXCEPT ![returning].returned = TRUE,
                             ![returning].skippedAgain = @ \/ returning \in res.skipped]
  IN /\ processedComments' = res.processed
     /\ IF res.found
          THEN /\ tick' = [tick EXCEPT ![t] =
                     [IdleTick EXCEPT !.pc = "cbt_issue", !.repoIdx = r, !.comments = res.rest,
                                      !.comment = c,
                                      !.command = parseBountyCommand(Comments[c])]]
               /\ hist' = [h EXCEPT ![c].invoked = @ + 1]
          ELSE /\ tick' = [tick EXCEPT ![t] =
                     IF r < Len(REPOSITORIES)
                       THEN [IdleTick EXCEPT !.pc = "list", !.repoIdx = r + 1]
                       ELSE IdleTick]
               /\ hist' = h

\* the loop of repository r continues with the comments cs
ContinueLoop(t, cs, r, returning) ==
  ResumeLoop(t, Scan(cs, processedComments, {}), r, returning)

Init ==
  /\ AUTHORIZED_USERS \in AllowLists
  /\ processedComments = {}
  /\ tick = [t \in Ticks |-> IdleTick]
  /\ hist = [c \in CommentIds |-> NoHist]
  /\ posts = [c \in CommentIds |-> <<>>]
  /\ calls = [t \in Ticks |-> NoCalls]
  /\ call = NoCall
  /\ clock = NoClock

\* the cron trigger (or the start-up call) starts checkForBountyCommands
StartTick(t) ==
  /\ tick[t].pc = "idle"
  /\ tick' = [tick EXCEPT ![t] = [IdleTick EXCEPT !.pc = "list"]]
  /\ UNCHANGED <<clock, call, calls, AUTHORIZED_USERS, processedComments, hist, posts>>

\* await getRecentComments(owner, repo) returns, and the loop runs; listings
\* on which the loop does the same are one outcome
GetRecentComments(t) ==
  /\ tick[t].pc = "list"
  /\ \E res \in {[Scan(cs, processedComments, {}) EXCEPT !.skipped = {}] :
                   cs \in Listings(REPOSITORIES[tick[t].repoIdx])} :
       ResumeLoop(t, res, tick[t].repoIdx, 0)
  /\ UNCHANGED <<clock, call, calls, AUTHORIZED_USERS, posts>>

(***************************************************************************)
(* Pure parts of the pipeline                                              *)
(***************************************************************************)
\* what connection.getSignatureStatus can answer
StatusOutcomes == {"confirmed", "finalized", "processed", "null", "throws"}

checkTransactionStatusAnyStatus(status) ==
  IF status = "throws" THEN FALSE
  ELSE IF status = "null" THEN FALSE
  ELSE TRUE

\* checkTransactionStatus: true only for confirmed or finalized; a missing
\* status and a thrown error both give false
checkTransactionStatus(status) ==
  IF status = "throws" THEN FALSE
  ELSE IF status = "null" THEN FALSE
  ELSE status = "confirmed" \/ status = "finalized"

\* the number of additional status checks after a blockhash-height error
RetryChecks == 3

FallbackNextAlwaysRetry(isConfirmed, confirmError) ==
  IF isConfirmed THEN "return" ELSE "retry"

\* signAndSendTransaction, inner catch: what follows the first status check
FallbackNext(isConfirmed, confirmError) ==
  IF isConfirmed THEN "return"
  ELSE IF confirmError = "blockheight" THEN "retry"
  ELSE "throw"

RetryNextUnbounded(i, retryConfirmed) ==
  IF retryConfirmed THEN "return" ELSE "retry"

\* the for-loop of the additional checks: break on a positive check, leave
\* the loop after the last one
RetryNext(i, retryConfirmed) ==
  IF retryConfirmed \/ i + 1 >= RetryChecks THEN "return" ELSE "retry"

\* signAndSendTransaction, outer catch: an error that carries a signature is
\* turned into a normal return of that signature, any other is rethrown
OuterCatch(errorSignature) ==
  IF errorSignature # NoSig THEN "return" ELSE "throw"

CatchNextSilent(transactionSignature, bountyResponse) ==
  IF transactionSignature # NoSig /\ bountyResponse # NullResponse
    THEN "c_status" ELSE "return"

\* processBountyCommand, catch block: the status re-check is made only with
\* both a signature and a marketplace response at hand
CatchNext(transactionSignature, bountyResponse) ==
  IF transactionSignature # NoSig /\ bountyResponse # NullResponse
    THEN "c_status" ELSE "f_issue"

AfterDegradedCommentFallsThrough == "f_issue"

\* the return statement after the degraded success comment
AfterDegradedComment == "return"

AfterCommentErrorRethrown == "idle"

\* catch (commentError): logged, and processBountyCommand ends normally
AfterCommentError == "return"

tokenTypeNoStableCoin(tokenAddress) ==
  IF tokenAddress = SOL_MINT THEN "SOL" ELSE "tokens"

tokenType(tokenAddress) ==
  IF tokenAddress = SOL_MINT THEN "SOL"
  ELSE IF tokenAddress = USDC_MINT THEN "USDC"
  ELSE "tokens"

\* the body posted at the end of the try block
SuccessReport(command, bountyResponse, transactionSignature, isConfirmed) ==
  [kind |-> "success", issue |-> command.issueUrl, taskId |-> bountyResponse.taskId,
   sig |-> transactionSignature, explorer |-> TRUE,
   note |-> IF isConfirmed THEN "confirmed" ELSE "pending",
   amount |-> command.amount, tokenType |-> tokenType(command.tokenAddress),
   error |-> "none"]

\* the body posted from the catch block when the status re-check is positive
DegradedReport(command, bountyResponse, transactionSignature) ==
  [kind |-> "degraded", issue |-> command.issueUrl, taskId |-> bountyResponse.taskId,
   sig |-> transactionSignature, explorer |-> TRUE, note |-> "appears successful",
   amount |-> command.amount, tokenType |-> tokenType(command.tokenAddress),
   error |-> "none"]

FailureReportNoMessage(command, bountyResponse, transactionSignature, error) ==
  [kind |-> "failure", issue |-> command.issueUrl,
   taskId |-> IF transactionSignature # NoSig /\ bountyResponse # NullResponse
                   /\ bountyResponse.taskId # NoTask
                THEN bountyResponse.taskId ELSE NoTask,
   sig |-> IF transactionSignature # NoSig THEN transactionSignature ELSE NoSig,
   explorer |-> transactionSignature # NoSig,
   note |-> IF transactionSignature # NoSig THEN "sent, confirmation failed" ELSE "none",
   amount |-> NullCommand.amount, tokenType |-> "none",
   error |-> "none"]

FailureReportAlwaysLinks(command, bountyResponse, transactionSignature, error) ==
  [kind |-> "failure", issue |-> command.issueUrl,
   taskId |-> bountyResponse.taskId, sig |-> transactionSignature, explorer |-> TRUE,
   note |-> "sent, confirmation failed", amount |-> NullCommand.amount,
   tokenType |-> "none", error |-> error]

\* the failure body: the explorer link only with a signature, the marketplace
\* link only inside the signature branch and with a task id
FailureReport(command, bountyResponse, transactionSignature, error) ==
  [kind |-> "failure", issue |-> command.issueUrl,
   taskId |-> IF transactionSignature # NoSig /\ bountyResponse # NullResponse
                   /\ bountyResponse.taskId # NoTask
                THEN bountyResponse.taskId ELSE NoTask,
   sig |-> IF transactionSignature # NoSig THEN transactionSignature ELSE NoSig,
   explorer |-> transactionSignature # NoSig,
   note |-> IF transactionSignature # NoSig THEN "sent, confirmation failed" ELSE "none",
   amount |-> NullCommand.amount, tokenType |-> "none",
   error |-> error]

(***************************************************************************)
(* Steps shared by the actions                                             *)
(***************************************************************************)
Goto(t, p) == tick' = [tick EXCEPT ![t].pc = p]

\* an exception reaches the catch block of processBountyCommand; the locals of
\* the function that threw are gone
Throw(t, message) ==
  tick' = [tick EXCEPT ![t].error = message,
                       ![t].signature = NoSig, ![t].confirmError = "none", ![t].i = 0,
                       ![t].isConfirmed = FALSE,
                       ![t].pc = CatchNext(tick[t].transactionSignature, tick[t].bountyResponse)]

\* signAndSendTransaction returns sig: the assignment to transactionSignature
ReturnSignature(t, sig) ==
  tick' = [tick EXCEPT ![t].transactionSignature = sig,
                       ![t].signature = NoSig, ![t].confirmError = "none", ![t].i = 0,
                       ![t].pc = "pbc_issue"]

Post(c, report) == posts' = [posts EXCEPT ![c] = Append(@, report)]

GithubFailed(c) == hist' = [hist EXCEPT ![c].githubFailed = TRUE]

\* one call of commentOnIssue by tick t
CommentAttempt(t) == calls' = [calls EXCEPT ![t].commentAttempts = @ + 1]

\* one call of checkTransactionStatus by signAndSendTransaction in tick t
StatusQuery(t) == calls' = [calls EXCEPT ![t].statusQueries = @ + 1]

\* one call of checkTransactionStatus by processBountyCommand in tick t, to
\* which connection.getSignatureStatus answers status
DirectQuery(t, status) ==
  calls' = [calls EXCEPT ![t].direct =
              IF status \in {"confirmed", "finalized"} THEN "pos" ELSE "neg"]

(***************************************************************************)
(* createBountyTransaction                                                 *)
(***************************************************************************)
\* await getIssueFromUrl(command.issueUrl)
CbtGetIssue(t) ==
  /\ tick[t].pc = "cbt_issue"
  /\ \/ Goto(t, "cbt_repo") /\ UNCHANGED hist
     \/ Throw(t, "github") /\ GithubFailed(tick[t].comment)
  /\ UNCHANGED <<clock, call, calls, AUTHORIZED_USERS, processedComments, posts>>

\* await getRepositoryFromUrl(issueDetails.repository_url)
CbtGetRepository(t) ==
  /\ tick[t].pc = "cbt_repo"
  /\ \/ Goto(t, "cbt_fetch") /\ UNCHANGED hist
     \/ Throw(t, "github") /\ GithubFailed(tick[t].comment)
  /\ UNCHANGED <<clock, call, calls, AUTHORIZED_USERS, processedComments, posts>>

\* the POST to the marketplace and the reading of its response
CbtFetch(t) ==
  LET c == tick[t].comment IN
  /\ tick[t].pc = "cbt_fetch"
  /\ \/ \* response.ok: the task id and the transaction to sign
        /\ tick' = [tick EXCEPT ![t].bountyResponse =
                      [taskId |-> TaskOf(c), serializedTransaction |-> c],
                    ![t].pc = "sign_send"]
        /\ hist' = [hist EXCEPT ![c].marketplacePosts = @ + 1, ![c].marketplace = "ok"]
     \/ \* !response.ok: Error(`Failed to create bounty: ... Details: ${errorText}`)
        /\ Throw(t, "marketplace details")
        /\ hist' = [hist EXCEPT ![c].marketplacePosts = @ + 1,
                                ![c].marketplace = "http error"]
     \/ \* fetch, response.text() or response.json() rejects
        /\ Throw(t, "network")
        /\ hist' = [hist EXCEPT ![c].marketplacePosts = @ + 1, ![c].marketplace = "network"]
  /\ UNCHANGED <<clock, call, calls, AUTHORIZED_USERS, processedComments, posts>>

(***************************************************************************)
(* signAndSendTransaction                                                  *)
(***************************************************************************)
\* getWalletKeypair, deserialize, sign (synchronous) and then
\* await connection.sendTransaction
SignAndSend(t) ==
  LET c == tick[t].comment IN
  /\ tick[t].pc = "sign_send"
  /\ \/ \* decoding the key, deserializing or signing throws: nothing is sent
        /\ OuterCatch(NoSig) = "throw"
        /\ Throw(t, "sign")
        /\ UNCHANGED hist
     \/ \* sendTransaction returns the signature
        /\ tick' = [tick EXCEPT ![t].signature = SigOf(c), ![t].pc = "blockhash"]
        /\ hist' = [hist EXCEPT ![c].sendCalls = @ + 1, ![c].sentSig = SigOf(c)]
     \/ \* sendTransaction throws
        \E errorSignature \in {NoSig, SigOf(c)} :
          /\ hist' = [hist EXCEPT ![c].sendCalls = @ + 1, ![c].errorSig = errorSignature]
          /\ IF OuterCatch(errorSignature) = "return"
               THEN ReturnSignature(t, errorSignature)
               ELSE Throw(t, "send")
  /\ UNCHANGED <<clock, call, calls, AUTHORIZED_USERS, processedComments, posts>>

\* await connection.getLatestBlockhash('confirmed'); a failure is caught by
\* the inner catch like a confirmation error
GetLatestBlockhash(t) ==
  LET c == tick[t].comment IN
  /\ tick[t].pc = "blockhash"
  /\ \/ Goto(t, "confirm") /\ UNCHANGED hist
     \/ /\ tick' = [tick EXCEPT ![t].confirmError = "error", ![t].pc = "fallback"]
        /\ hist' = [hist EXCEPT ![c].primary = "error"]
  /\ UNCHANGED <<clock, call, calls, AUTHORIZED_USERS, processedComments, posts>>

\* the outcomes of the race of confirmTransaction against the 60 s timer
ConfirmErrors == {"timeout", "blockheight", "error"}

\* await Promise.race([confirmTransaction, timeout])
ConfirmTransaction(t) ==
  LET c == tick[t].comment IN
  /\ tick[t].pc = "confirm"
  /\ \/ /\ ReturnSignature(t, tick[t].signature)
        /\ hist' = [hist EXCEPT ![c].primary = "ok", ![c].positive = TRUE]
     \/ \E e \in ConfirmErrors :
          /\ tick' = [tick EXCEPT ![t].confirmError = e, ![t].pc = "fallback"]
          /\ hist' = [hist EXCEPT ![c].primary = e]
  /\ UNCHANGED <<clock, call, calls, AUTHORIZED_USERS, processedComments, posts>>

\* inner catch: the settle delay, then await checkTransactionStatus(signature)
FallbackCheck(t) ==
  LET c == tick[t].comment IN
  /\ tick[t].pc = "fallback"
  /\ \E status \in StatusOutcomes :
       LET isConfirmed == checkTransactionStatus(status)
           next == FallbackNext(isConfirmed, tick[t].confirmError)
       IN /\ hist' = [hist EXCEPT ![c].fallbackFirst = IF isConfirmed THEN "pos" ELSE "neg",
                                  ![c].positive = @ \/ isConfirmed]
          /\ CASE next = "return" -> ReturnSignature(t, tick[t].signature)
               [] next = "retry" -> tick' = [tick EXCEPT ![t].i = 0, ![t].pc = "retry"]
               [] OTHER -> \* Error('Transaction may have failed'), no signature on it
                           IF OuterCatch(NoSig) = "return"
                             THEN ReturnSignature(t, NoSig)
                             ELSE Throw(t, "may have failed")
  /\ StatusQuery(t)
  /\ UNCHANGED <<clock, call, AUTHORIZED_USERS, processedComments, posts>>

\* one iteration of the additional checks: delay, then checkTransactionStatus
RetryCheck(t) ==
  LET c == tick[t].comment IN
  /\ tick[t].pc = "retry"
  /\ tick[t].i < RetryChecks
  /\ \E status \in StatusOutcomes :
       LET retryConfirmed == checkTransactionStatus(status) IN
       /\ hist' = [hist EXCEPT ![c].positive = @ \/ retryConfirmed]
       /\ IF RetryNext(tick[t].i, retryConfirmed) = "return"
            THEN ReturnSignature(t, tick[t].signature)
            ELSE tick' = [tick EXCEPT ![t].i = @ + 1]
  /\ StatusQuery(t)
  /\ UNCHANGED <<clock, call, AUTHORIZED_USERS, processedComments, posts>>

(***************************************************************************)
(* processBountyCommand                                                    *)
(***************************************************************************)
\* try block: await getIssueFromUrl(command.issueUrl); the call of
\* signAndSendTransaction is over, so its count of status queries is dropped
PbcGetIssue(t) ==
  /\ tick[t].pc = "pbc_issue"
  /\ \/ Goto(t, "pbc_status") /\ UNCHANGED hist
     \/ Throw(t, "github") /\ GithubFailed(tick[t].comment)
  /\ calls' = [calls EXCEPT ![t].statusQueries = 0]
  /\ UNCHANGED <<clock, call, AUTHORIZED_USERS, processedComments, posts>>

\* try block: await checkTransactionStatus(transactionSignature)
PbcCheckStatus(t) ==
  /\ tick[t].pc = "pbc_status"
  /\ \E status \in StatusOutcomes :
       /\ tick' = [tick EXCEPT ![t].isConfirmed = checkTransactionStatus(status),
                               ![t].pc = "pbc_comment"]
       /\ DirectQuery(t, status)
  /\ UNCHANGED <<clock, call, AUTHORIZED_USERS, processedComments, hist, posts>>

\* try block: await commentOnIssue(success body)
PbcComment(t) ==
  LET c == tick[t].comment IN
  /\ tick[t].pc = "pbc_comment"
  /\ \/ /\ Post(c, SuccessReport(tick[t].command, tick[t].bountyResponse,
                                 tick[t].transactionSignature, tick[t].isConfirmed))
        /\ tick' = [tick EXCEPT ![t].isConfirmed = FALSE, ![t].pc = "return"]
        /\ UNCHANGED hist
     \/ /\ Throw(t, "comment")
        /\ GithubFailed(c)
        /\ UNCHANGED posts
  /\ CommentAttempt(t)
  /\ UNCHANGED <<clock, call, AUTHORIZED_USERS, processedComments>>

\* catch block: await checkTransactionStatus(transactionSignature)
CatchCheckStatus(t) ==
  /\ tick[t].pc = "c_status"
  /\ \E status \in StatusOutcomes :
       /\ Goto(t, IF checkTransactionStatus(status) THEN "c_issue" ELSE "f_issue")
       /\ DirectQuery(t, status)
  /\ UNCHANGED <<clock, call, AUTHORIZED_USERS, processedComments, hist, posts>>

\* catch block, positive re-check: await getIssueFromUrl
CatchGetIssue(t) ==
  /\ tick[t].pc = "c_issue"
  /\ \/ Goto(t, "c_comment") /\ UNCHANGED hist
     \/ Goto(t, "f_issue") /\ GithubFailed(tick[t].comment)
  /\ UNCHANGED <<clock, call, calls, AUTHORIZED_USERS, processedComments, posts>>

\* catch block, positive re-check: await commentOnIssue(degraded body)
CatchComment(t) ==
  LET c == tick[t].comment IN
  /\ tick[t].pc = "c_comment"
  /\ \/ /\ Post(c, DegradedReport(tick[t].command, tick[t].bountyResponse,
                                  tick[t].transactionSignature))
        /\ Goto(t, AfterDegradedComment)
        /\ UNCHANGED hist
     \/ /\ Goto(t, "f_issue")
        /\ GithubFailed(c)
        /\ UNCHANGED posts
  /\ CommentAttempt(t)
  /\ UNCHANGED <<clock, call, AUTHORIZED_USERS, processedComments>>

\* failure path: await getIssueFromUrl; the failure body rests on no status
\* query, so the answer to the latest one is dropped
FailGetIssue(t) ==
  /\ tick[t].pc = "f_issue"
  /\ \/ Goto(t, "f_comment") /\ UNCHANGED hist
     \/ Goto(t, AfterCommentError) /\ GithubFailed(tick[t].comment)
  /\ calls' = [calls EXCEPT ![t].direct = "none"]
  /\ UNCHANGED <<clock, call, AUTHORIZED_USERS, processedComments, posts>>

\* failure path: await commentOnIssue(failure body)
FailComment(t) ==
  LET c == tick[t].comment IN
  /\ tick[t].pc = "f_comment"
  /\ \/ /\ Post(c, FailureReport(tick[t].command, tick[t].bountyResponse,
                                 tick[t].transactionSignature, tick[t].error))
        /\ UNCHANGED hist
        /\ Goto(t, "return")
     \/ /\ GithubFailed(c)
        /\ UNCHANGED posts
        /\ Goto(t, AfterCommentError)
  /\ CommentAttempt(t)
  /\ UNCHANGED <<clock, call, AUTHORIZED_USERS, processedComments>>

\* processBountyCommand has returned: the await in the comment loop resumes
\* and the loop goes on with the next comment
ProcessReturn(t) ==
  /\ tick[t].pc = "return"
  /\ ContinueLoop(t, tick[t].comments, tick[t].repoIdx, tick[t].comment)
  /\ calls' = [calls EXCEPT ![t] = NoCalls]
  /\ UNCHANGED <<clock, call, AUTHORIZED_USERS, posts>>

Next ==
  \E t \in Ticks :
    \/ StartTick(t)
    \/ GetRecentComments(t)
    \/ CbtGetIssue(t)
    \/ CbtGetRepository(t)
    \/ CbtFetch(t)
    \/ SignAndSend(t)
    \/ GetLatestBlockhash(t)
    \/ ConfirmTransaction(t)
    \/ FallbackCheck(t)
    \/ RetryCheck(t)
    \/ PbcGetIssue(t)
    \/ PbcCheckStatus(t)
    \/ PbcComment(t)
    \/ CatchCheckStatus(t)
    \/ CatchGetIssue(t)
    \/ CatchComment(t)
    \/ FailGetIssue(t)
    \/ FailComment(t)
    \/ ProcessReturn(t)

Spec == Init /\ [][Next]_vars

\* every awaited network call of tick t returns or fails, and the code after
\* the await runs
AwaitResumes(t) ==
  \/ GetRecentComments(t)
  \/ CbtGetIssue(t)
  \/ CbtGetRepository(t)
  \/ CbtFetch(t)
  \/ SignAndSend(t)
  \/ GetLatestBlockhash(t)
  \/ ConfirmTransaction(t)
  \/ FallbackCheck(t)
  \/ RetryCheck(t)
  \/ PbcGetIssue(t)
  \/ PbcCheckStatus(t)
  \/ PbcComment(t)
  \/ CatchCheckStatus(t)
  \/ CatchGetIssue(t)
  \/ CatchComment(t)
  \/ FailGetIssue(t)
  \/ FailComment(t)
  \/ ProcessReturn(t)

\* one poll tick after the other, no two overlapping
SingleFlightNext == StartTick(1) \/ AwaitResumes(1)

\* the invocations of processBountyCommand of such ticks, under the
\* assumption that no network call hangs forever
FairSpec == Init /\ [][SingleFlightNext]_vars /\ WF_vars(AwaitResumes(1))

(***************************************************************************)
(* parseBountyCommand and the report bodies on their own: one call on any  *)
(* of the comments, under any of the allow-lists                           *)
(***************************************************************************)
CallInit ==
  /\ AUTHORIZED_USERS \in AllowLists
  /\ processedComments = {}
  /\ tick = [t \in Ticks |-> IdleTick]
  /\ hist = [c \in CommentIds |-> NoHist]
  /\ posts = [c \in CommentIds |-> <<>>]
  /\ calls = [t \in Ticks |-> NoCalls]
  /\ call \in {[NoCall EXCEPT !.pc = "parse", !.comment = c] : c \in DOMAIN Comments}
  /\ clock = NoClock

\* parseBountyCommand(comment)
ParseCall ==
  /\ call.pc = "parse"
  /\ call' = [call EXCEPT !.pc = "parsed",
                          !.command = parseBountyCommand(Comments[call.comment])]
  /\ UNCHANGED <<clock, AUTHORIZED_USERS, processedComments, tick, hist, posts, calls>>

\* the bodies processBountyCommand builds for the command: the one of the try
\* block and the one of the catch block
FormatCall ==
  /\ call.pc = "parsed"
  /\ call.command # NullCommand
  /\ \E isConfirmed \in BOOLEAN :
       call' = [call EXCEPT
                  !.pc = "formatted",
                  !.normal = SuccessReport(call.command,
                               [taskId |-> TaskOf(call.comment),
                                serializedTransaction |-> call.comment],
                               SigOf(call.comment), isConfirmed),
                  !.degraded = DegradedReport(call.command,
                                 [taskId |-> TaskOf(call.comment),
                                  serializedTransaction |-> call.comment],
                                 SigOf(call.comment))]
  /\ UNCHANGED <<clock, AUTHORIZED_USERS, processedComments, tick, hist, posts, calls>>

\* isAuthorized(comment.user.login)
AuthorizeCall ==
  /\ call.pc = "parse"
  /\ call' = [call EXCEPT !.pc = "authorized",
                          !.authorized = isAuthorized(Comments[call.comment].user)]
  /\ UNCHANGED <<clock, AUTHORIZED_USERS, processedComments, tick, hist, posts, calls>>

CallNext == ParseCall \/ FormatCall \/ AuthorizeCall

CallSpec == CallInit /\ [][CallNext]_vars

(***************************************************************************)
(* The registry of processed comment ids and its daily cleanup, on their   *)
(* own: ids are added as the poll loop sees them while the clock advances  *)
(***************************************************************************)
\* the longest time the bot is followed for, in hours
MaxHours == 48
\* the time that passes between two steps, in hours
ClockSteps == {12}
\* "Only keep comments from the last 24 hours": oneDayAgo is now minus one day
RetentionHours == 24

\* the registry a cleanup run leaves behind: no timestamp is stored with the
\* ids, nothing is compared with oneDayAgo and nothing is deleted
CleanedRegistry(processed, seenAt, oneDayAgo) == processed

\* time passes
ClockAdvance ==
  /\ \E h \in ClockSteps :
       /\ clock.now + h <= MaxHours
       /\ clock' = [clock EXCEPT !.now = @ + h, !.before = {}, !.cleaned = FALSE]
  /\ UNCHANGED <<AUTHORIZED_USERS, processedComments, tick, hist, posts, calls, call>>

\* the comment loop comes to comment c: has(), then add()
SeenByLoop(c) ==
  /\ ~AlreadyProcessed(processedComments, c)
  /\ processedComments' = MarkProcessed(processedComments, c)
  /\ clock' = [clock EXCEPT !.seenAt[c] = clock.now, !.before = {}, !.cleaned = FALSE]
  /\ UNCHANGED <<AUTHORIZED_USERS, tick, hist, posts, calls, call>>

\* cron.schedule('0 0 * * *', cleanupProcessedComments): a run at midnight
cleanupProcessedComments ==
  /\ clock.now % 24 = 0
  /\ ~clock.cleaned
  /\ processedComments' =
       CleanedRegistry(processedComments, clock.seenAt, clock.now - RetentionHours)
  /\ clock' = [clock EXCEPT !.before = processedComments, !.cleaned = TRUE]
  /\ UNCHANGED <<AUTHORIZED_USERS, tick, hist, posts, calls, call>>

CleanupNext ==
  \/ ClockAdvance
  \/ \E c \in CommentIds : SeenByLoop(c)
  \/ cleanupProcessedComments

CleanupSpec == Init /\ [][CleanupNext]_vars

(***************************************************************************)
(* Properties                                                              *)
(***************************************************************************)
\* the author of comment c is on the allow-list, up to letter case
OnAllowList(c) ==
  \E u \in AUTHORIZED_USERS : toLowerCase(u) = toLowerCase(Comments[c].user)

\* the body of comment c matches the command syntax
MatchesSyntax(c) == BodyMatch[c].ok

Reports(c) == {posts[c][k] : k \in DOMAIN posts[c]}

\* C1: processBountyCommand is invoked at most once per comment id and at
\* most one report is posted for it; once an id is in processedComments its
\* number of invocations is settled (1 for an authorized command, else 0), so
\* no later tick and no repeated listing entry invokes the pipeline again.
C1_InvokedAtMostOnce ==
  \A c \in CommentIds :
    /\ hist[c].invoked <= 1
    /\ Len(posts[c]) <= 1
    /\ hist[c].invoked = 1 => c \in processedComments
    /\ c \in processedComments =>
         hist[c].invoked = IF MatchesSyntax(c) /\ OnAllowList(c) THEN 1 ELSE 0

\* a listing repeated the id of a command within one tick: the repetition was
\* skipped after the pipeline returned, with one invocation and one report
C1_Witness ==
  \E c \in CommentIds :
    hist[c].skippedAgain /\ hist[c].returned /\ hist[c].invoked = 1 /\ Len(posts[c]) = 1

\* C2: once sendTransaction has returned a signature, every comment posted
\* for the command references that signature.
C2_SignatureInEveryReport ==
  \A c \in CommentIds :
    hist[c].sentSig # NoSig =>
      \A r \in Reports(c) : r.explorer /\ r.sig = hist[c].sentSig

\* C3: a submitted transaction whose primary confirmation failed and whose
\* fallback checks were all negative is never reported as a failure.
C3_AmbiguousNeverFailure ==
  \A c \in CommentIds :
    (hist[c].sentSig # NoSig /\ hist[c].primary \in ConfirmErrors /\ ~hist[c].positive) =>
      \A r \in Reports(c) : r.kind # "failure"

\* C4: when the primary confirmation timed out or failed and the fallback
\* status check was positive, the comment posted is never the failure report.
C4_FallbackConfirmedIsSuccess ==
  \A c \in CommentIds :
    (hist[c].primary \in ConfirmErrors /\ hist[c].fallbackFirst = "pos") =>
      \A r \in Reports(c) : r.kind # "failure"

\* C5: for a comment that matches the command syntax and whose author is not
\* on the allow-list, processBountyCommand is never invoked: no marketplace
\* request and no submission is made for it.
C5_UnauthorizedNeverProcessed ==
  \A c \in CommentIds :
    (MatchesSyntax(c) /\ ~OnAllowList(c)) =>
      /\ hist[c].invoked = 0
      /\ hist[c].marketplacePosts = 0
      /\ hist[c].sendCalls = 0
      /\ \A t \in Ticks : tick[t].comment # c

\* with an empty allow-list every command has been seen by the loop and none
\* was processed
C5_Witness ==
  /\ AUTHORIZED_USERS = {}
  /\ {c \in CommentIds : MatchesSyntax(c)} \subseteq processedComments
  /\ \E c \in processedComments : MatchesSyntax(c) /\ hist[c].invoked = 0

\* C6: every comment seen by the poll loop that matches the command syntax
\* and whose author is not on the allow-list got a 'not authorized' response.
C6_UnauthorizedIsAnswered ==
  \A c \in processedComments :
    (MatchesSyntax(c) /\ ~OnAllowList(c)) =>
      \E r \in Reports(c) : r.kind = "unauthorized"

\* C7: when processBountyCommand has returned and no call to the code-hosting
\* service failed (the failures are those of the marketplace call, signing,
\* submission, confirmation and status queries), exactly one comment was
\* posted for the command.
C7_ExactlyOneComment ==
  \A c \in CommentIds :
    (hist[c].returned /\ ~hist[c].githubFailed) => Len(posts[c]) = 1

\* a command whose marketplace call, signing or submission failed returned
\* with exactly one comment, the failure report
C7_Witness ==
  \E c \in CommentIds :
    /\ hist[c].returned /\ ~hist[c].githubFailed
    /\ hist[c].sentSig = NoSig
    /\ Len(posts[c]) = 1 /\ posts[c][1].kind = "failure"

\* C8: per comment id the marketplace POST is issued at most once and
\* sendTransaction is called at most once.
C8_AtMostOneSubmission ==
  \A c \in CommentIds :
    hist[c].marketplacePosts <= 1 /\ hist[c].sendCalls <= 1

\* two ticks overlap while the last additional status check of a submitted
\* transaction is pending: one POST and one submission so far
C8_Witness ==
  \E t1, t2 \in Ticks :
    /\ t1 # t2
    /\ tick[t1].pc = "retry" /\ tick[t1].i = RetryChecks - 1
    /\ tick[t2].pc = "list"
    /\ tick[t1].comment \in processedComments
    /\ hist[tick[t1].comment].marketplacePosts = 1
    /\ hist[tick[t1].comment].sendCalls = 1

\* C9: when the primary confirmation succeeded, the report posted is the
\* success report stating that the transaction is confirmed, with the
\* signature returned by the submission.
C9_ConfirmedIsReportedConfirmed ==
  \A c \in CommentIds :
    hist[c].primary = "ok" =>
      \A r \in Reports(c) :
        r.kind = "success" /\ r.note = "confirmed" /\ r.sig = hist[c].sentSig

\* C10: when no signature was ever obtained, the report posted is a failure
\* report without a signature and without an explorer link.
C10_NoSignatureNoLink ==
  \A c \in CommentIds :
    (hist[c].sentSig = NoSig /\ hist[c].errorSig = NoSig) =>
      \A r \in Reports(c) : r.kind = "failure" /\ r.sig = NoSig /\ ~r.explorer

\* the submission threw without a signature and the failure report was posted
C10_Witness ==
  \E c \in CommentIds :
    /\ hist[c].sendCalls = 1 /\ hist[c].sentSig = NoSig /\ hist[c].errorSig = NoSig
    /\ Len(posts[c]) = 1 /\ posts[c][1].kind = "failure" /\ posts[c][1].error = "send"

\* C11: when the marketplace POST came back with a non-OK response, nothing
\* is signed or submitted for the command and every comment posted for it is
\* the failure report carrying the error detail of the response body.
C11_HttpErrorIsReported ==
  \A c \in CommentIds :
    hist[c].marketplace = "http error" =>
      /\ hist[c].sendCalls = 0 /\ hist[c].sentSig = NoSig /\ hist[c].errorSig = NoSig
      /\ \A t \in Ticks :
           tick[t].comment = c =>
             /\ tick[t].pc \notin {"sign_send", "blockhash", "confirm", "fallback", "retry"}
             /\ tick[t].transactionSignature = NoSig
      /\ \A r \in Reports(c) : r.kind = "failure" /\ r.error = "marketplace details"

\* the POST was answered with an HTTP error and the failure report was posted
C11_Witness ==
  \E c \in CommentIds :
    /\ hist[c].marketplace = "http error" /\ hist[c].returned
    /\ Len(posts[c]) = 1 /\ posts[c][1].error = "marketplace details"

\* C12: the token label of both success bodies is SOL exactly for the wrapped
\* native mint, USDC exactly for the stable-coin mint and 'tokens' for every
\* other address, and the two bodies show the same label and amount.
C12_TokenLabel ==
  call.pc = "formatted" =>
    /\ call.normal.tokenType \in {"SOL", "USDC", "tokens"}
    /\ call.normal.tokenType = "SOL" <=> call.command.tokenAddress = SOL_MINT
    /\ call.normal.tokenType = "USDC" <=> call.command.tokenAddress = USDC_MINT
    /\ call.degraded.tokenType = call.normal.tokenType
    /\ call.normal.amount = call.command.amount
    /\ call.degraded.amount = call.command.amount

\* both bodies were built for a command whose token is neither mint
C12_Witness ==
  /\ call.pc = "formatted"
  /\ call.command.tokenAddress \notin {SOL_MINT, USDC_MINT}
  /\ call.normal.tokenType = "tokens" /\ call.degraded.tokenType = "tokens"

AlnumSet == Range(UpperLetters) \cup Range(LowerLetters) \cup Range(Digits)

\* the body is the slash command of the grammar and nothing else: /bounty,
\* white space, an integer or decimal amount, white space, a token of 32 to 44
\* alphanumeric characters (upper-case letters in /bounty are let through)
GrammarOk(b) ==
  LET n == Len(BountyLiteral)
      a == n + 1 + RunLen(b, n + 1, SpaceSet)
      d == a + RunLen(b, a, DigitSet)
      f == IF d <= Len(b) /\ b[d] = "." THEN RunLen(b, d + 1, DigitSet) ELSE 0
      e == IF f > 0 THEN d + 1 + f ELSE d
      k == e + RunLen(b, e, SpaceSet)
      w == RunLen(b, k, AlnumSet)
  IN /\ Len(b) >= n
     /\ toLowerCase(SubSeq(b, 1, n)) = BountyLiteral
     /\ a > n + 1 /\ d > a /\ k > e
     /\ w >= 32 /\ w <= 44
     /\ k + w - 1 = Len(b)

IsCommand == [c \in DOMAIN Comments |-> GrammarOk(Comments[c].body)]

\* C13: parseBountyCommand returns null for every comment whose body is not
\* the slash command of the grammar, whoever wrote it, and changes nothing.
C13_NonCommandIsRejected ==
  (call.pc \in {"parsed", "formatted"} /\ ~IsCommand[call.comment]) =>
    /\ call.command = NullCommand
    /\ processedComments = {}
    /\ \A c \in CommentIds : posts[c] = <<>> /\ hist[c] = NoHist

\* C14: at most one poll tick is in progress at any time.
C14_OneTickAtATime ==
  Cardinality({t \in Ticks : tick[t].pc # "idle"}) <= 1

\* C15: the id of a command is in processedComments from the moment its
\* pipeline invocation starts, and no two ticks are in an invocation for the
\* same comment id.
C15_NoTwoInFlight ==
  \A t1 \in Ticks :
    tick[t1].comment # 0 =>
      /\ tick[t1].comment \in processedComments
      /\ hist[tick[t1].comment].invoked = 1
      /\ \A t2 \in Ticks : t2 # t1 => tick[t2].comment # tick[t1].comment

\* two ticks overlap: one is inside the invocation for a command while the
\* other is waiting for the listing of the repository of that command
C15_Witness ==
  \E t1, t2 \in Ticks :
    /\ t1 # t2
    /\ tick[t1].comment # 0
    /\ tick[t1].pc \notin {"idle", "list", "return"}
    /\ tick[t2].pc = "list"
    /\ REPOSITORIES[tick[t2].repoIdx] = Comments[tick[t1].comment].repo

\* C16: within one invocation of processBountyCommand commentOnIssue is
\* called at most once.
C16_OneReportAttempt ==
  \A t \in Ticks : calls[t].commentAttempts <= 1

\* C17: no step of an invocation of processBountyCommand ends the tick or
\* loses the rest of the listing; a tick moves from one repository only to
\* the listing of the next one, and ends only after the last repository.
C17_NoFailureAbortsTick ==
  [][\A t \in Ticks :
       /\ tick[t].pc \notin {"idle", "list", "return"} =>
            /\ tick'[t].pc \notin {"idle", "list"}
            /\ tick'[t].repoIdx = tick[t].repoIdx
            /\ tick'[t].comments = tick[t].comments
            /\ tick'[t].comment = tick[t].comment
       /\ (tick[t].pc # "idle" /\ tick'[t].pc = "idle") =>
            tick[t].repoIdx = Len(REPOSITORIES)
       /\ (tick[t].pc # "idle" /\ tick'[t].pc # "idle"
             /\ tick'[t].repoIdx # tick[t].repoIdx) =>
            tick'[t].repoIdx = tick[t].repoIdx + 1 /\ tick'[t].pc = "list"]_vars

\* the invocation for a command of the first repository returned after
\* calls to the code-hosting service failed and no comment could be posted,
\* and a tick is at the listing of the second repository
C17_Witness ==
  \E c \in CommentIds, t \in Ticks :
    /\ Comments[c].repo = REPOSITORIES[1]
    /\ hist[c].returned /\ hist[c].githubFailed /\ posts[c] = <<>>
    /\ tick[t].pc = "list" /\ tick[t].repoIdx = 2

\* C18: signAndSendTransaction makes at most 4 status queries; more than one
\* only after a blockhash-height error whose first check was negative, and
\* no further one after a positive check.
C18_BoundedStatusChecks ==
  \A t \in Ticks :
    /\ calls[t].statusQueries <= 4
    /\ tick[t].pc = "fallback" => calls[t].statusQueries = 0
    /\ tick[t].pc = "retry" =>
         /\ calls[t].statusQueries >= 1 /\ calls[t].statusQueries <= 3
         /\ ~hist[tick[t].comment].positive
    /\ calls[t].statusQueries > 1 =>
         /\ hist[tick[t].comment].primary = "blockheight"
         /\ hist[tick[t].comment].fallbackFirst = "neg"

\* all four status queries were made and signAndSendTransaction returned
C18_Witness ==
  \E t \in Ticks :
    /\ calls[t].statusQueries = 4
    /\ tick[t].pc = "pbc_issue"
    /\ ~hist[tick[t].comment].positive

\* a returned invocation posted a confirmed success
IsSuccess(c) ==
  \E r \in Reports(c) : (r.kind = "success" /\ r.note = "confirmed") \/ r.kind = "degraded"

\* a returned invocation posted a success with the confirmation pending
IsAmbiguousSuccess(c) ==
  \E r \in Reports(c) : r.kind = "success" /\ r.note = "pending"

\* a returned invocation went through the failure path
IsFailure(c) ==
  \A r \in Reports(c) : r.kind = "failure"

\* C19: when no network call hangs, every invocation of processBountyCommand
\* returns, and it returns in exactly one of success, ambiguous success and
\* failure.
C19_Terminates ==
  \A c \in CommentIds :
    (hist[c].invoked = 1) ~>
      (/\ hist[c].returned
       /\ Cardinality({o \in {"s", "a", "f"} :
             \/ o = "s" /\ IsSuccess(c)
             \/ o = "a" /\ IsAmbiguousSuccess(c)
             \/ o = "f" /\ IsFailure(c)}) = 1)

\* an invocation returned after the three additional status checks were all
\* negative, with the pending report
C19_Witness ==
  \E c \in CommentIds :
    /\ hist[c].returned /\ hist[c].primary = "blockheight" /\ ~hist[c].positive
    /\ IsAmbiguousSuccess(c)

\* C20: every failure report carries the error message and, when the
\* marketplace had returned a task id, the link to that task.
C20_FailureHasTaskLink ==
  \A c \in CommentIds :
    \A r \in Reports(c) :
      r.kind = "failure" =>
        /\ r.error # "none"
        /\ hist[c].marketplace = "ok" => r.taskId = TaskOf(c)

\* C21: a cleanup run removes from the registry every id that was added more
\* than 24 hours before it and keeps every id added later.
C21_CleanupEvictsOld ==
  clock.cleaned =>
    processedComments =
      {c \in clock.before : clock.now - clock.seenAt[c] <= RetentionHours}

\* C22: every command parseBountyCommand returns has an amount greater than
\* zero; a comment written with amount 0 or 0.0 yields no command, so that
\* nothing is built or requested for it.
C22_AmountIsPositive ==
  (call.pc \in {"parsed", "formatted"} /\ call.command # NullCommand) =>
    /\ call.command.amount.num > 0
    /\ call.command.amount.den > 0

\* a and b are the same string up to the case of their letters
EqualUpToCase(a, b) ==
  /\ Len(a) = Len(b)
  /\ \A i \in DOMAIN a :
       \/ a[i] = b[i]
       \/ \E k \in DOMAIN UpperLetters :
            {a[i], b[i]} = {UpperLetters[k], LowerLetters[k]}

\* C23: isAuthorized(username) is true exactly when AUTHORIZED_USERS has an
\* entry equal to username up to letter case, false for everyone when the
\* list is empty, and no step changes AUTHORIZED_USERS.
C23_IsAuthorizedExact ==
  [][/\ AUTHORIZED_USERS' = AUTHORIZED_USERS
     /\ call'.pc = "authorized" =>
          /\ call'.authorized <=>
               \E u \in AUTHORIZED_USERS : EqualUpToCase(u, Comments[call'.comment].user)
          /\ AUTHORIZED_USERS = {} => ~call'.authorized]_vars

\* a user whose login differs from the entry of the list in letter case only
\* was found authorized
C23_Witness ==
  /\ call.pc = "authorized" /\ call.authorized
  /\ Comments[call.comment].user \notin AUTHORIZED_USERS

\* C24: at most one comment is posted per invocation of processBountyCommand,
\* and once a comment is posted the invocation makes no further call: it is
\* at its return.
C24_NoPostAfterPost ==
  \A c \in CommentIds :
    /\ Len(posts[c]) <= hist[c].invoked
    /\ posts[c] # <<>> =>
         \A t \in Ticks : tick[t].comment = c => tick[t].pc = "return"

\* the success comment could not be posted, the failure comment was, and it
\* is the only comment of the invocation
C24_Witness ==
  \E c \in CommentIds :
    /\ hist[c].returned /\ hist[c].sentSig # NoSig
    /\ Len(posts[c]) = 1
    /\ posts[c][1].kind = "failure" /\ posts[c][1].error = "comment"

\* the report says that the transaction is confirmed
StatesConfirmed(r) ==
  (r.kind = "success" /\ r.note = "confirmed") \/ r.kind = "degraded"

\* C25: a report that says the transaction is confirmed was posted only when
\* the latest status query that processBountyCommand made itself before the
\* post was answered confirmed or finalized; when that query was negative or
\* threw, the report says that the confirmation is pending or is the failure
\* report, whatever the primary confirmation had given.
C25_ConfirmedOnlyAfterDirectCheck ==
  \A t \in Ticks :
    tick[t].pc = "return" =>
      \A r \in Reports(tick[t].comment) :
        /\ StatesConfirmed(r) => calls[t].direct = "pos"
        /\ calls[t].direct # "pos" =>
             (r.kind = "success" /\ r.note = "pending") \/ r.kind = "failure"

\* the primary confirmation succeeded, the status query before the comment
\* was negative, and the report posted says that the confirmation is pending
C25_Witness ==
  \E t \in Ticks :
    /\ tick[t].pc = "return"
    /\ hist[tick[t].comment].primary = "ok"
    /\ calls[t].direct = "neg"
    /\ \E r \in Reports(tick[t].comment) : r.kind = "success" /\ r.note = "pending"

====
